---- MODULE Spec2Model ----
(***************************************************************************)
(* Model of the ERDOS per-node runtime (src/src/node/node.rs): the node    *)
(* thread started by run_async, the supervisor async_run, the startup      *)
(* phases of run_operators, and the NodeHandle.  One copy of the node      *)
(* state per node id.  Under Spec one node of the cluster runs the code    *)
(* and its peers are its environment: a peer is started by its own caller  *)
(* and, at any later time, its AllOperatorsInitializedOnNode broadcast     *)
(* arrives.                                                                *)
(*                                                                         *)
(* The model follows the tcp_transport build (the default feature): the    *)
(* zenoh builds add one more select! branch (the query handler) to the     *)
(* same supervisor.                                                        *)
(***************************************************************************)
EXTENDS Naturals, FiniteSets, Sequences, TLC

\* ---------------------------------------------------------------- bounds
MaxNodes == 2      \* largest cluster: num_nodes ranges over 1..MaxNodes
MaxOps == 2        \* most operators of the dataflow graph, over all nodes
MaxHooks == 1      \* most setup hooks of a node's driver
MaxConversions == 2    \* most error conversions recorded in one behaviour
MaxReads == 2      \* most reads of one report that are counted

\* ---------------------------------------------------------------- constants
ShutdownCapacity == 1   \* mpsc::channel(1) of Node::new

\* The node ids of the model: those of the largest cluster of Spec and one
\* more, for the cluster of MaxNodes + 1 nodes of RedeliverySpec.
NodeIds == 0 .. MaxNodes
OpIds == 1 .. MaxOps

\* The four kinds of transport worker, one *Initialized variant each.
Kinds == {"ControlSender", "ControlReceiver", "DataSender", "DataReceiver"}

\* The four group futures of async_run (run_senders, run_receivers,
\* run_control_senders, run_control_receivers).
Groups == {"senders_fut", "recvs_fut", "control_senders_fut", "control_recvs_fut"}

VARIABLES
    num_nodes,              \* config.data_addresses.len()
    concrete,               \* the node ids whose Node runs the code step by step
    conversions,            \* the error conversions made so far, each with its result
    shutdown_rx,            \* Node.shutdown_rx is Some (the receiver is still in the Node)
    sup,                    \* position of the node thread in run / async_run
    caller,                 \* position of the thread that owns the Node / NodeHandle
    try_send_result,        \* what try_send answered to shutdown() ("none": not called)
    shutdown_chan,          \* values queued in the mpsc::channel(1) of Node::new
    initialized,            \* the (Mutex<bool>, Condvar) latch
    pc,                     \* position of run_operators
    comm_initialized,       \* the four HashSets of wait_for_communication_layer_initialized
    workers_reported,       \* transport workers that have sent their *Initialized
    init_chan,              \* control handler: pending sender/receiver *Initialized
    channel_manager,        \* ChannelManager::new has returned
    num_local_operators,    \* local_operators.len()
    op_state,               \* state of each local operator task
    rx_from_operators,      \* pending messages of the operators' control channel
    initialized_operators,  \* HashSet of wait_for_local_operators_initialized
    op_observed,            \* times OperatorInitialized(op) was read by the node
    violations,             \* barrier phases that have read an unexpected variant
    duplicates,             \* barrier phases that have read a report a second time
    channels_to_operators,  \* operator ids that still have a tx in the HashMap
    hooks_total,            \* driver.setup_hooks.len() (0 without a driver)
    hooks_invoked,          \* setup hooks called so far
    broadcast_done,         \* broadcast_local_operators_initialized returned Ok
    allops_chan,            \* control handler: pending AllOperatorsInitializedOnNode
    initialized_nodes,      \* HashSet of wait_for_all_operators_initialized
    allops_received,        \* times AllOperatorsInitializedOnNode(n) was read
    cmd_chan,               \* operators with a RunOperator pending in their channel
    run_sent,               \* times RunOperator(op) was sent
    disabled,               \* select! branches whose future completed without a match
    exit_cause,             \* what ended async_run: a select! branch, or a panic
    log                     \* slog::error! lines of async_run

supVars == <<sup, shutdown_chan, disabled, exit_cause, log>>
callerVars == <<caller, try_send_result>>
commVars == <<comm_initialized, workers_reported, init_chan>>
opVars == <<op_state, rx_from_operators, cmd_chan>>
phaseEVars == <<initialized_operators, op_observed, violations>>
phaseGVars == <<allops_chan, initialized_nodes, allops_received>>
graphVars == <<channel_manager, num_local_operators, channels_to_operators,
               hooks_total, hooks_invoked>>
nodeVars == <<num_nodes, concrete, shutdown_rx, duplicates, sup, caller, try_send_result, shutdown_chan, initialized, pc, comm_initialized,
          workers_reported, init_chan, channel_manager, num_local_operators,
          op_state, rx_from_operators, initialized_operators, op_observed,
          violations, channels_to_operators, hooks_total, hooks_invoked, broadcast_done,
          allops_chan, initialized_nodes, allops_received, cmd_chan, run_sent,
          disabled, exit_cause, log>>
vars == <<conversions, nodeVars>>

\* The three channels of the control handler and of the operators are kept as
\* sets of pending messages: every source sends each of its messages once, and
\* the order in which different sources' messages arrive is arbitrary, so the
\* reader may get any pending message next.

\* ---------------------------------------------------------------- helpers
Nodes == 0 .. (num_nodes - 1)
Peers(i) == Nodes \ {i}
LocalOps(i) == 1 .. num_local_operators[i]

\* The runtime of node i is alive: its spawned tasks are scheduled.
RuntimeAlive(i) == sup[i] \in {"join", "select"}
\* run_operators of node i is being polled by a select!.
OpsPolled(i) == sup[i] = "select" /\ "ops_fut" \notin disabled[i]


\* ---------------------------------------------------------------- Init
\* The state after Node::new on every node of the cluster: nothing runs yet,
\* the shutdown receiver is in the Node and no error has been converted.
NodeNew ==
    /\ conversions = <<>>
    /\ shutdown_rx = [i \in NodeIds |-> TRUE]
    /\ sup = [i \in NodeIds |-> "new"]
    /\ caller = [i \in NodeIds |-> "idle"]
    /\ try_send_result = [i \in NodeIds |-> "none"]
    /\ shutdown_chan = [i \in NodeIds |-> 0]
    /\ initialized = [i \in NodeIds |-> FALSE]
    /\ pc = [i \in NodeIds |-> "idle"]
    /\ comm_initialized = [i \in NodeIds |-> [k \in Kinds |-> {}]]
    /\ workers_reported = [i \in NodeIds |-> {}]
    /\ init_chan = [i \in NodeIds |-> {}]
    /\ channel_manager = [i \in NodeIds |-> FALSE]
    /\ num_local_operators = [i \in NodeIds |-> 0]
    /\ op_state = [i \in NodeIds |-> [o \in OpIds |-> "none"]]
    /\ rx_from_operators = [i \in NodeIds |-> {}]
    /\ initialized_operators = [i \in NodeIds |-> {}]
    /\ op_observed = [i \in NodeIds |-> [o \in OpIds |-> 0]]
    /\ violations = [i \in NodeIds |-> {}]
    /\ duplicates = [i \in NodeIds |-> {}]
    /\ channels_to_operators = [i \in NodeIds |-> {}]
    /\ hooks_total = [i \in NodeIds |-> 0]
    /\ hooks_invoked = [i \in NodeIds |-> 0]
    /\ broadcast_done = [i \in NodeIds |-> FALSE]
    /\ allops_chan = [i \in NodeIds |-> {}]
    /\ initialized_nodes = [i \in NodeIds |-> {}]
    /\ allops_received = [i \in NodeIds |-> [n \in NodeIds |-> 0]]
    /\ cmd_chan = [i \in NodeIds |-> {}]
    /\ run_sent = [i \in NodeIds |-> [o \in OpIds |-> 0]]
    /\ disabled = [i \in NodeIds |-> {}]
    /\ exit_cause = [i \in NodeIds |-> "none"]
    /\ log = [i \in NodeIds |-> {}]

\* Node ids are interchangeable in node.rs (they are only stored in sets and
\* compared for equality), so the node that runs the code is taken to have
\* the first or the last id of the cluster.
Init ==
    /\ num_nodes \in 1 .. MaxNodes
    /\ concrete \in {{0}, {num_nodes - 1}}
    /\ NodeNew

\* ---------------------------------------------------------------- caller side
\* Node::run_async up to the wait on the latch: the node thread is spawned and
\* the caller blocks on the condition variable.
RunAsync(i) ==
    /\ i \in Nodes
    /\ caller[i] = "idle"
    /\ caller' = [caller EXCEPT ![i] = "waiting"]
    /\ UNCHANGED try_send_result
    /\ sup' = [sup EXCEPT ![i] = "connect"]
    /\ UNCHANGED <<num_nodes, concrete, conversions, shutdown_rx, duplicates, shutdown_chan, initialized, pc, commVars, opVars,
                   phaseEVars, phaseGVars, graphVars, broadcast_done, run_sent,
                   disabled, exit_cause, log>>

\* Mutant of LatchOpen: run_async does not wait for the latch.
LatchOpen_NoWait(i) == TRUE

\* Mutant of LatchOpen: the caller is also let go when the node thread ends.
LatchOpen_OrThreadEnded(i) == initialized[i] \/ sup[i] \in {"exited", "panicked"}

\* The loop `while !*started { cvar.wait }` of run_async lets the caller go.
LatchOpen(i) == initialized[i]

\* Node::run_async returns the NodeHandle.
RunAsyncReturn(i) ==
    /\ i \in concrete
    /\ caller[i] = "waiting"
    /\ LatchOpen(i)
    /\ caller' = [caller EXCEPT ![i] = "handle"]
    /\ UNCHANGED try_send_result
    /\ UNCHANGED <<num_nodes, concrete, conversions, shutdown_rx, duplicates, supVars, initialized, pc, commVars, opVars,
                   phaseEVars, phaseGVars, graphVars, broadcast_done, run_sent>>

\* Node::run called on the Node by the thread that owns it: the calling
\* thread builds the runtime and blocks on async_run, so it is the node
\* thread until run returns.  The Node outlives the call and can be run again.
Run(i) ==
    /\ i \in concrete
    /\ caller[i] \in {"idle", "returned"}
    /\ caller' = [caller EXCEPT ![i] =
           IF caller[i] = "idle" THEN "running" ELSE "running_again"]
    /\ sup' = [sup EXCEPT ![i] = "connect"]
    /\ pc' = [pc EXCEPT ![i] = "idle"]
    /\ UNCHANGED <<num_nodes, concrete, conversions, shutdown_rx, duplicates,
                   try_send_result, shutdown_chan, disabled, exit_cause, log,
                   initialized, commVars, opVars, phaseEVars, phaseGVars,
                   graphVars, broadcast_done, run_sent>>

\* Node::run returns to its caller: async_run has returned.
RunReturn(i) ==
    /\ i \in concrete
    /\ caller[i] \in {"running", "running_again"}
    /\ sup[i] = "exited"
    /\ caller' = [caller EXCEPT ![i] = "returned"]
    /\ UNCHANGED try_send_result
    /\ UNCHANGED <<num_nodes, concrete, conversions, shutdown_rx, duplicates, supVars, initialized, pc, commVars, opVars,
                   phaseEVars, phaseGVars, graphVars, broadcast_done, run_sent>>

\* The node thread has ended (JoinHandle::join can return).
ThreadEnded(i) == sup[i] \in {"exited", "panicked"}

\* Result of shutdown_tx.try_send(()): Ok when the channel has a free slot,
\* Closed when the receiver was dropped with the node, Full otherwise.
\* Result of try_send(()) on a channel with queued values whose receiver is
\* closed (dropped with the node) or not: Ok when there is a free slot,
\* Closed when the receiver is gone, Full otherwise.
TrySendResult(closed, queued) ==
    IF closed THEN "Closed"
    ELSE IF queued >= ShutdownCapacity THEN "Full"
    ELSE "Ok"

\* Mutant of TrySend: the value is queued whatever try_send would answer.
TrySend_Always(closed, queued) == queued + 1

\* Values queued after try_send(()): one more when it answered Ok, the same
\* when it answered an error.
TrySend(closed, queued) ==
    IF TrySendResult(closed, queued) = "Ok" THEN queued + 1 ELSE queued

\* NodeHandle::shutdown: try_send on the shutdown channel, its error dropped by
\* .ok(), then the join of the node thread begins.
Shutdown(i) ==
    /\ i \in concrete
    /\ caller[i] = "handle"
    /\ shutdown_chan' =
           [shutdown_chan EXCEPT ![i] = TrySend(ThreadEnded(i), shutdown_chan[i])]
    /\ try_send_result' =
           [try_send_result EXCEPT ![i] = TrySendResult(ThreadEnded(i), shutdown_chan[i])]
    /\ caller' = [caller EXCEPT ![i] = "joining"]
    /\ UNCHANGED <<num_nodes, concrete, conversions, shutdown_rx, duplicates, sup, disabled, exit_cause, log, initialized, pc,
                   commVars, opVars, phaseEVars, phaseGVars, graphVars,
                   broadcast_done, run_sent>>

\* NodeHandle::join begins to wait for the node thread.
Join(i) ==
    /\ i \in concrete
    /\ caller[i] = "handle"
    /\ caller' = [caller EXCEPT ![i] = "joining"]
    /\ UNCHANGED try_send_result
    /\ UNCHANGED <<num_nodes, concrete, conversions, shutdown_rx, duplicates, supVars, initialized, pc, commVars, opVars,
                   phaseEVars, phaseGVars, graphVars, broadcast_done, run_sent>>

\* Mutant of JoinResult: a logged error of the node is returned as Err.
JoinResult_ErrorPropagated(i) ==
    IF sup[i] = "panicked" \/ log[i] # {} THEN "join_err" ELSE "join_ok"

\* thread_handle.join().map_err(..): Err when the thread panicked, else Ok.
JoinResult(i) == IF sup[i] = "panicked" THEN "join_err" ELSE "join_ok"

\* Mutant of JoinReady: join returns without waiting for the thread.
JoinReady_NoWait(i) == TRUE

\* thread_handle.join() can return: the node thread has ended.
JoinReady(i) == ThreadEnded(i)

\* thread_handle.join() returns: Ok after a normal end, Err after a panic.
JoinReturn(i) ==
    /\ i \in concrete
    /\ caller[i] = "joining"
    /\ JoinReady(i)
    /\ caller' = [caller EXCEPT ![i] = JoinResult(i)]
    /\ UNCHANGED try_send_result
    /\ UNCHANGED <<num_nodes, concrete, conversions, shutdown_rx, duplicates, supVars, initialized, pc, commVars, opVars,
                   phaseEVars, phaseGVars, graphVars, broadcast_done, run_sent>>

\* ---------------------------------------------------------------- supervisor
\* The node thread ends: the futures of async_run, the runtime with its tasks
\* and the Node with its channels and control handler are dropped.  Only what
\* the caller shares with the node (the latch) outlives it.
Dropped(i) ==
    /\ shutdown_chan' = [shutdown_chan EXCEPT ![i] = 0]
    /\ disabled' = [disabled EXCEPT ![i] = {}]
    /\ comm_initialized' = [comm_initialized EXCEPT ![i] = [k \in Kinds |-> {}]]
    /\ workers_reported' = [workers_reported EXCEPT ![i] = {}]
    /\ init_chan' = [init_chan EXCEPT ![i] = {}]
    /\ channel_manager' = [channel_manager EXCEPT ![i] = FALSE]
    /\ num_local_operators' = [num_local_operators EXCEPT ![i] = 0]
    /\ op_state' = [op_state EXCEPT ![i] = [o \in OpIds |-> "none"]]
    /\ rx_from_operators' = [rx_from_operators EXCEPT ![i] = {}]
    /\ initialized_operators' = [initialized_operators EXCEPT ![i] = {}]
    /\ op_observed' = [op_observed EXCEPT ![i] = [o \in OpIds |-> 0]]
    /\ channels_to_operators' = [channels_to_operators EXCEPT ![i] = {}]
    /\ hooks_total' = [hooks_total EXCEPT ![i] = 0]
    /\ hooks_invoked' = [hooks_invoked EXCEPT ![i] = 0]
    /\ allops_chan' = [allops_chan EXCEPT ![i] = {}]
    /\ initialized_nodes' = [initialized_nodes EXCEPT ![i] = {}]
    /\ allops_received' = [allops_received EXCEPT ![i] = [n \in NodeIds |-> 0]]
    /\ cmd_chan' = [cmd_chan EXCEPT ![i] = {}]
    /\ run_sent' = [run_sent EXCEPT ![i] = [o \in OpIds |-> 0]]

\* A select! branch completes with a value that matches its pattern: the
\* branch body logs and async_run returns, so run returns and the thread ends.
\* run_operators is left at position at (dropped unless it returned itself).
ExitRunLoop(i, branch, at) ==
    /\ sup' = [sup EXCEPT ![i] = "exited"]
    /\ exit_cause' = [exit_cause EXCEPT ![i] = branch]
    /\ log' = [log EXCEPT ![i] = IF branch = "shutdown_fut" THEN @ ELSE @ \cup {branch}]
    /\ pc' = [pc EXCEPT ![i] = at]
    /\ Dropped(i)
    /\ UNCHANGED <<num_nodes, concrete, conversions, shutdown_rx, duplicates, callerVars, initialized, broadcast_done,
                   violations>>

\* The node thread panics: it unwinds out of block_on and run, dropping
\* everything as it goes; nothing is logged and no select! branch has won.
PanicThread(i, cause) ==
    /\ sup' = [sup EXCEPT ![i] = "panicked"]
    /\ exit_cause' = [exit_cause EXCEPT ![i] = cause]
    /\ pc' = [pc EXCEPT ![i] = "dropped"]
    /\ Dropped(i)
    /\ UNCHANGED <<num_nodes, concrete, conversions, shutdown_rx, duplicates, callerVars, initialized, broadcast_done, log>>

\* Mutant of SeededSets: the four sets start empty.
SeededSets_Empty(i) == [k \in Kinds |-> {}]

\* First poll of run_operators: wait_for_communication_layer_initialized creates
\* its four sets, each seeded with self.id.
SeededSets(i) == [k \in Kinds |-> {i}]

\* Mutant of Take: the receiver is borrowed and stays in the Node.
Take_LeavesSome(rx) == rx

\* Option::take leaves None in the place it takes the value from.
Take(rx) == FALSE

\* Phase A, async_run up to its select!/try_join!: the streams to every peer
\* are created (all peers must be up), the shutdown receiver is taken out of
\* the Node and the futures are built.  With more than one node the select!
\* polls every branch at once, which starts run_operators; with one node
\* try_join! runs first.  When the receiver has been taken before, the
\* unwrap() of the None panics.
Connect(i) ==
    /\ i \in concrete
    /\ sup[i] = "connect"
    /\ \A j \in Peers(i) : sup[j] # "new"
    /\ IF shutdown_rx[i]
       THEN /\ shutdown_rx' = [shutdown_rx EXCEPT ![i] = Take(@)]
            /\ IF num_nodes <= 1
               THEN /\ sup' = [sup EXCEPT ![i] = "join"]
                    /\ UNCHANGED <<pc, comm_initialized>>
               ELSE /\ sup' = [sup EXCEPT ![i] = "select"]
                    /\ pc' = [pc EXCEPT ![i] = "B"]
                    /\ comm_initialized' =
                           [comm_initialized EXCEPT ![i] = SeededSets(i)]
            /\ UNCHANGED <<num_nodes, concrete, conversions, duplicates, callerVars, shutdown_chan,
                           disabled, exit_cause, log, initialized,
                           workers_reported, init_chan, opVars, phaseEVars,
                           phaseGVars, graphVars, broadcast_done, run_sent>>
       ELSE /\ PanicThread(i, "unwrap_none")
            /\ UNCHANGED violations

\* Mutant of AfterTryJoin: an error of try_join! ends the node.
AfterTryJoin_Fatal(i, r) ==
    /\ log' = [log EXCEPT ![i] = IF r = "Ok" THEN @ ELSE @ \cup {"non_fatal_network"}]
    /\ sup' = [sup EXCEPT ![i] = IF r = "Ok" THEN "select" ELSE "exited"]
    /\ exit_cause' = [exit_cause EXCEPT ![i] = IF r = "Ok" THEN @ ELSE r]

\* What the supervisor does with the result r of try_join! (num_nodes <= 1):
\* an error is logged as non-fatal, and in both cases the select! is entered.
AfterTryJoin(i, r) ==
    /\ log' = [log EXCEPT ![i] = IF r = "Ok" THEN @ ELSE @ \cup {"non_fatal_network"}]
    /\ sup' = [sup EXCEPT ![i] = "select"]
    /\ UNCHANGED exit_cause

\* num_nodes <= 1: try_join! of the four group futures returns, Ok when all
\* four completed or the first Err; then the select! of run_operators and the
\* shutdown signal is entered and run_operators gets its first poll.
JoinTransport(i, r) ==
    /\ i \in concrete
    /\ sup[i] = "join"
    /\ AfterTryJoin(i, r)
    /\ pc' = [pc EXCEPT ![i] = "B"]
    /\ comm_initialized' = [comm_initialized EXCEPT ![i] = SeededSets(i)]
    /\ UNCHANGED <<num_nodes, concrete, conversions, shutdown_rx, duplicates, callerVars, shutdown_chan, disabled, initialized,
                   workers_reported, init_chan, opVars, phaseEVars, phaseGVars,
                   graphVars, broadcast_done, run_sent>>

\* Mutant of TransportError: the group futures are raced with one node too.
TransportError_AnyN(i, g) ==
    /\ i \in concrete
    /\ sup[i] = "select"
    /\ ExitRunLoop(i, g, "dropped")

\* num_nodes > 1: one of the four group futures completes with an error
\* ("These threads only complete when a failure happens").
TransportError(i, g) ==
    /\ i \in concrete
    /\ num_nodes > 1
    /\ sup[i] = "select"
    /\ ExitRunLoop(i, g, "dropped")

\* Mutant of ShutdownSignalled: the receiver never yields the queued value.
ShutdownSignalled_Never(i) == FALSE

\* shutdown_rx.recv() is ready: a value is queued in the shutdown channel.
ShutdownSignalled(i) == shutdown_chan[i] > 0

\* shutdown_rx.recv() yields the queued value: the `_ = shutdown_fut` branch.
RecvShutdown(i) ==
    /\ i \in concrete
    /\ sup[i] = "select"
    /\ ShutdownSignalled(i)
    /\ ExitRunLoop(i, "shutdown_fut", IF pc[i] = "ok" THEN "ok" ELSE "dropped")

\* run_operators returns Err(..): the `Err(e) = ops_fut` branch matches.
OpsReturnErr(i) == ExitRunLoop(i, "ops_fut", "err")

\* Mutant of OpsReturnOk: an Ok(()) of run_operators wins the select! too.
OpsReturnOk_Wins(i) == ExitRunLoop(i, "ops_fut", "ok")

\* run_operators returns Ok(()): the pattern `Err(e)` does not match, the
\* branch is disabled and the select! goes on waiting for the others.
OpsReturnOk(i) ==
    /\ pc' = [pc EXCEPT ![i] = "ok"]
    /\ disabled' = [disabled EXCEPT ![i] = @ \cup {"ops_fut"}]
    /\ UNCHANGED <<num_nodes, concrete, conversions, shutdown_rx, duplicates, sup, shutdown_chan, exit_cause, log, callerVars,
                   initialized, commVars, opVars, phaseEVars, phaseGVars,
                   graphVars, broadcast_done, run_sent>>

\* ---------------------------------------------------------------- Phase B
\* A transport worker of node i for peer p starts and reports its
\* *Initialized(p) to the control handler of node i.
WorkerInitialized(i, k, p) ==
    /\ i \in concrete
    /\ sup[i] = "select"
    /\ p \in Peers(i)
    /\ <<k, p>> \notin workers_reported[i]
    /\ workers_reported' = [workers_reported EXCEPT ![i] = @ \cup {<<k, p>>}]
    /\ init_chan' = [init_chan EXCEPT ![i] = @ \cup {<<k, p>>}]
    /\ UNCHANGED <<num_nodes, concrete, conversions, shutdown_rx, duplicates, supVars, callerVars, initialized, pc, comm_initialized,
                   opVars, phaseEVars, phaseGVars, graphVars, broadcast_done,
                   run_sent>>

\* Mutant of CommunicationLayerInitialized: the loop runs while all four sets
\* are short (&& for ||), so it ends when any one set is full.
CommunicationLayerInitialized_AnySet(i) ==
    \E k \in Kinds : Cardinality(comm_initialized[i][k]) >= num_nodes

\* Mutant of CommunicationLayerInitialized: the data receivers are not waited for.
CommunicationLayerInitialized_ThreeSets(i) ==
    \A k \in Kinds \ {"DataReceiver"} : Cardinality(comm_initialized[i][k]) >= num_nodes

\* The negation of the while condition of
\* wait_for_communication_layer_initialized.
CommunicationLayerInitialized(i) ==
    \A k \in Kinds : Cardinality(comm_initialized[i][k]) >= num_nodes

\* What read_sender_or_receiver_initialized can yield to node i: a pending
\* *Initialized report of a worker, or a control message of another variant
\* that a peer has sent.
InitializationMessages(i) == init_chan[i] \cup {<<"Other", p>> : p \in Peers(i)}

\* The `_ => unreachable!()` arm of the match: the node thread panics.
Unreachable(i) ==
    /\ violations' = [violations EXCEPT ![i] = @ \cup {"B"}]
    /\ PanicThread(i, "unreachable")

\* One iteration of the loop: read_sender_or_receiver_initialized yields a
\* message and the match inserts its node id into the set of its kind; any
\* other variant takes the `_` arm.
ReadInitialized(i) ==
    /\ i \in concrete
    /\ OpsPolled(i)
    /\ pc[i] = "B"
    /\ ~CommunicationLayerInitialized(i)
    /\ \E m \in InitializationMessages(i) :
        IF m[1] \in Kinds
        THEN /\ init_chan' = [init_chan EXCEPT ![i] = @ \ {m}]
             /\ comm_initialized' =
                    [comm_initialized EXCEPT ![i][m[1]] = @ \cup {m[2]}]
             /\ UNCHANGED <<num_nodes, concrete, conversions, shutdown_rx, duplicates, supVars, callerVars, initialized, pc,
                            workers_reported, opVars, phaseEVars, phaseGVars,
                            graphVars, broadcast_done, run_sent>>
        ELSE Unreachable(i)

\* read_sender_or_receiver_initialized yields Err(e) (the handler's channel
\* is closed): the `?` returns the error out of run_operators.
ReadInitializedError(i) ==
    /\ i \in concrete
    /\ OpsPolled(i)
    /\ pc[i] = "B"
    /\ ~CommunicationLayerInitialized(i)
    /\ OpsReturnErr(i)

\* The loop ends and wait_for_communication_layer_initialized returns Ok(()).
ExitPhaseB(i) ==
    /\ i \in concrete
    /\ OpsPolled(i)
    /\ pc[i] = "B"
    /\ CommunicationLayerInitialized(i)
    /\ pc' = [pc EXCEPT ![i] = "C"]
    /\ UNCHANGED <<num_nodes, concrete, conversions, shutdown_rx, duplicates, supVars, callerVars, initialized, commVars, opVars,
                   phaseEVars, phaseGVars, graphVars, broadcast_done, run_sent>>

\* ---------------------------------------------------------------- Phase C
\* Operators of the graph that are placed on the other nodes.
OperatorsElsewhere(i) ==
    LET RECURSIVE Sum(_)
        Sum(S) == IF S = {} THEN 0
                  ELSE LET j == CHOOSE x \in S : TRUE
                       IN num_local_operators[j] + Sum(S \ {j})
    IN Sum(Peers(i))

\* scheduler::schedule, the optional DOT dump, ChannelManager::new and the
\* filter of the operators by node_id: n operators are local to node i.
ScheduleAndBuild(i, n) ==
    /\ i \in concrete
    /\ OpsPolled(i)
    /\ pc[i] = "C"
    /\ n + OperatorsElsewhere(i) <= MaxOps
    /\ channel_manager' = [channel_manager EXCEPT ![i] = TRUE]
    /\ num_local_operators' = [num_local_operators EXCEPT ![i] = n]
    /\ pc' = [pc EXCEPT ![i] = IF n = 0 THEN "E" ELSE "D"]
    /\ UNCHANGED <<num_nodes, concrete, conversions, shutdown_rx, duplicates, supVars, callerVars, initialized, commVars, opVars,
                   phaseEVars, phaseGVars, channels_to_operators, hooks_total,
                   hooks_invoked, broadcast_done, run_sent>>

\* graph.to_dot fails: run_operators returns the error through `?`.
DotError(i) ==
    /\ i \in concrete
    /\ OpsPolled(i)
    /\ pc[i] = "C"
    /\ OpsReturnErr(i)

\* ---------------------------------------------------------------- Phase D
\* One iteration of the spawn loop: the command channel of the next operator
\* is recorded under its id and its task is spawned.
SpawnOperator(i) ==
    /\ i \in concrete
    /\ OpsPolled(i)
    /\ pc[i] = "D"
    /\ LET o == Cardinality(channels_to_operators[i]) + 1 IN
        /\ o \in LocalOps(i)
        /\ channels_to_operators' = [channels_to_operators EXCEPT ![i] = @ \cup {o}]
        /\ op_state' = [op_state EXCEPT ![i][o] = "spawned"]
        /\ pc' = [pc EXCEPT ![i] = IF o = num_local_operators[i] THEN "E" ELSE "D"]
    /\ UNCHANGED <<num_nodes, concrete, conversions, shutdown_rx, duplicates, supVars, callerVars, initialized, commVars,
                   rx_from_operators, cmd_chan, phaseEVars, phaseGVars,
                   channel_manager, num_local_operators, hooks_total,
                   hooks_invoked, broadcast_done, run_sent>>

\* ---------------------------------------------------------------- Phase E
\* Mutant of LocalOperatorsInitialized: the loop stops one operator short.
LocalOperatorsInitialized_OffByOne(i) ==
    Cardinality(initialized_operators[i]) + 1 >= num_local_operators[i]

\* Mutant of LocalOperatorsInitialized: the reports read are counted, not
\* the distinct operator ids.
LocalOperatorsInitialized_CountsReads(i) ==
    LET RECURSIVE Reads(_)
        Reads(S) == IF S = {} THEN 0
                    ELSE LET o == CHOOSE x \in S : TRUE
                         IN op_observed[i][o] + Reads(S \ {o})
    IN Reads(OpIds) >= num_local_operators[i]

\* Mutant of LocalOperatorsInitialized: the wait is skipped.
LocalOperatorsInitialized_Skipped(i) == TRUE

\* The negation of the while condition of wait_for_local_operators_initialized.
LocalOperatorsInitialized(i) ==
    Cardinality(initialized_operators[i]) >= num_local_operators[i]

\* What rx_from_operators.recv() can yield to node i: a pending
\* OperatorInitialized report, or a control message of another variant that
\* an operator which has not reported yet has sent on operator_tx.
OperatorMessages(i) ==
    rx_from_operators[i] \cup
        {<<"Other", o>> : o \in {x \in LocalOps(i) : op_state[i][x] = "spawned"}}

\* One iteration of the loop: a message of the operators' channel is read; an
\* OperatorInitialized(op_id) inserts op_id, anything else is dropped.
ReadOperatorInitialized(i) ==
    /\ i \in concrete
    /\ OpsPolled(i)
    /\ pc[i] = "E"
    /\ ~LocalOperatorsInitialized(i)
    /\ \E m \in OperatorMessages(i) :
        /\ rx_from_operators' = [rx_from_operators EXCEPT ![i] = @ \ {m}]
        /\ IF m[1] = "OperatorInitialized"
           THEN /\ initialized_operators' =
                       [initialized_operators EXCEPT ![i] = @ \cup {m[2]}]
                /\ op_observed' = [op_observed EXCEPT ![i][m[2]] = @ + 1]
                /\ UNCHANGED violations
           ELSE /\ violations' = [violations EXCEPT ![i] = @ \cup {"E"}]
                /\ UNCHANGED <<initialized_operators, op_observed>>
    /\ UNCHANGED <<num_nodes, concrete, conversions, shutdown_rx, duplicates, supVars, callerVars, initialized, pc, commVars, op_state,
                   cmd_chan, phaseGVars, graphVars, broadcast_done, run_sent>>

\* The loop ends; graph.get_driver(self.id) yields the driver's h setup hooks
\* (h = 0: no driver for this node).
ExitPhaseE(i, h) ==
    /\ i \in concrete
    /\ OpsPolled(i)
    /\ pc[i] = "E"
    /\ LocalOperatorsInitialized(i)
    /\ hooks_total' = [hooks_total EXCEPT ![i] = h]
    /\ pc' = [pc EXCEPT ![i] = "F"]
    /\ UNCHANGED <<num_nodes, concrete, conversions, shutdown_rx, duplicates, supVars, callerVars, initialized, commVars, opVars,
                   phaseEVars, phaseGVars, channel_manager, num_local_operators,
                   channels_to_operators, hooks_invoked, broadcast_done, run_sent>>

\* ---------------------------------------------------------------- Phase F
\* One iteration of `for setup_hook in driver.setup_hooks`.
InvokeSetupHook(i) ==
    /\ i \in concrete
    /\ OpsPolled(i)
    /\ pc[i] = "F"
    /\ hooks_invoked[i] < hooks_total[i]
    /\ hooks_invoked' = [hooks_invoked EXCEPT ![i] = @ + 1]
    /\ UNCHANGED <<num_nodes, concrete, conversions, shutdown_rx, duplicates, supVars, callerVars, initialized, pc, commVars, opVars,
                   phaseEVars, phaseGVars, channel_manager, num_local_operators,
                   channels_to_operators, hooks_total, broadcast_done, run_sent>>

\* Mutant of DriverSetUp: the broadcast does not wait for the hook loop.
DriverSetUp_NoWait(i) == TRUE

\* The hook loop is over.
DriverSetUp(i) == hooks_invoked[i] >= hooks_total[i]

\* ---------------------------------------------------------------- Phase G
\* broadcast_to_nodes(AllOperatorsInitializedOnNode(self.id)): one message on
\* the control sender of every peer; the nodes that receive the broadcast of i.
BroadcastTargets(i) == Peers(i)

\* Mutant of SeededNodes: the set starts empty.
SeededNodes_Empty(i) == {}

\* wait_for_all_operators_initialized creates its set and inserts self.id.
SeededNodes(i) == {i}

\* The hook loop has consumed driver.setup_hooks;
\* broadcast_local_operators_initialized returns Ok and
\* wait_for_all_operators_initialized creates its set, seeded with self.id.
Broadcast(i) ==
    /\ i \in concrete
    /\ OpsPolled(i)
    /\ pc[i] = "F"
    /\ DriverSetUp(i)
    /\ allops_chan' = [j \in NodeIds |->
           IF j \in BroadcastTargets(i) /\ ~ThreadEnded(j)
           THEN allops_chan[j] \cup {i} ELSE allops_chan[j]]
    /\ broadcast_done' = [broadcast_done EXCEPT ![i] = TRUE]
    /\ initialized_nodes' = [initialized_nodes EXCEPT ![i] = SeededNodes(i)]
    /\ pc' = [pc EXCEPT ![i] = "G"]
    /\ hooks_total' = [hooks_total EXCEPT ![i] = 0]
    /\ hooks_invoked' = [hooks_invoked EXCEPT ![i] = 0]
    /\ UNCHANGED <<num_nodes, concrete, conversions, shutdown_rx, duplicates, supVars, callerVars, initialized, commVars, opVars,
                   phaseEVars, allops_received, channel_manager,
                   num_local_operators, channels_to_operators, run_sent>>

\* broadcast_to_nodes fails (the sink of a control sender is disconnected):
\* run_operators returns the error through `?`.
BroadcastFails(i) ==
    /\ i \in concrete
    /\ OpsPolled(i)
    /\ pc[i] = "F"
    /\ DriverSetUp(i)
    /\ Peers(i) # {}
    /\ OpsReturnErr(i)

\* Mutant of AllOperatorsInitialized: the loop stops one node short.
AllOperatorsInitialized_OffByOne(i) ==
    Cardinality(initialized_nodes[i]) + 1 >= num_nodes

\* Mutant of AllOperatorsInitialized: the wait for the other nodes is skipped.
AllOperatorsInitialized_NoWait(i) == TRUE

\* The negation of the while condition of wait_for_all_operators_initialized.
AllOperatorsInitialized(i) == Cardinality(initialized_nodes[i]) >= num_nodes

\* One iteration of the loop: read_all_operators_initialized_on_node_msg
\* yields Ok(node_id), which is inserted.
ReadAllOperatorsInitialized(i) ==
    /\ i \in concrete
    /\ OpsPolled(i)
    /\ pc[i] = "G"
    /\ ~AllOperatorsInitialized(i)
    /\ \E n \in allops_chan[i] :
        /\ allops_chan' = [allops_chan EXCEPT ![i] = @ \ {n}]
        /\ initialized_nodes' = [initialized_nodes EXCEPT ![i] = @ \cup {n}]
        /\ allops_received' = [allops_received EXCEPT ![i][n] = @ + 1]
    /\ UNCHANGED <<num_nodes, concrete, conversions, shutdown_rx, duplicates, supVars, callerVars, initialized, pc, commVars, opVars,
                   phaseEVars, graphVars, broadcast_done, run_sent>>

\* read_all_operators_initialized_on_node_msg yields Err(e) (a message of
\* another variant, or a closed channel): the Err arm returns the error.
ReadAllOperatorsError(i) ==
    /\ i \in concrete
    /\ OpsPolled(i)
    /\ pc[i] = "G"
    /\ ~AllOperatorsInitialized(i)
    /\ OpsReturnErr(i)

\* The loop ends and wait_for_all_operators_initialized returns Ok(()).
ExitPhaseG(i) ==
    /\ i \in concrete
    /\ OpsPolled(i)
    /\ pc[i] = "G"
    /\ AllOperatorsInitialized(i)
    /\ pc' = [pc EXCEPT ![i] = "H"]
    /\ UNCHANGED <<num_nodes, concrete, conversions, shutdown_rx, duplicates, supVars, callerVars, initialized, commVars, opVars,
                   phaseEVars, phaseGVars, graphVars, broadcast_done, run_sent>>

\* ---------------------------------------------------------------- Phase H
\* Mutant of SetNodeInitialized: run_operators goes on without setting the latch.
SetNodeInitialized_Skipped(i) ==
    /\ i \in concrete
    /\ OpsPolled(i)
    /\ pc[i] = "H"
    /\ pc' = [pc EXCEPT ![i] = IF channels_to_operators[i] = {} THEN "J" ELSE "I"]
    /\ UNCHANGED <<num_nodes, concrete, conversions, shutdown_rx, duplicates, supVars, callerVars, initialized, commVars,
                   opVars, phaseEVars, phaseGVars, graphVars, broadcast_done,
                   run_sent>>

\* set_node_initialized: the latch is set and the condition variable notified.
SetNodeInitialized(i) ==
    /\ i \in concrete
    /\ OpsPolled(i)
    /\ pc[i] = "H"
    /\ initialized' = [initialized EXCEPT ![i] = TRUE]
    /\ pc' = [pc EXCEPT ![i] = IF channels_to_operators[i] = {} THEN "J" ELSE "I"]
    /\ UNCHANGED <<num_nodes, concrete, conversions, shutdown_rx, duplicates, supVars, callerVars, commVars, opVars, phaseEVars,
                   phaseGVars, graphVars, broadcast_done, run_sent>>

\* ---------------------------------------------------------------- Phase I
\* The receiver of operator o's command channel is gone (its task has ended).
OperatorGone(i, o) == op_state[i][o] \in {"done", "failed"}

\* One iteration of `for (op_id, tx) in channels_to_operators` (a HashMap: any
\* order): RunOperator(op_id) is sent on tx; a closed channel is an error
\* returned through `?`.
SendRunOperator(i, o) ==
    /\ i \in concrete
    /\ OpsPolled(i)
    /\ pc[i] = "I"
    /\ o \in channels_to_operators[i]
    /\ IF OperatorGone(i, o)
       THEN OpsReturnErr(i)
       ELSE /\ cmd_chan' = [cmd_chan EXCEPT ![i] = @ \cup {o}]
            /\ run_sent' = [run_sent EXCEPT ![i][o] = @ + 1]
            /\ channels_to_operators' = [channels_to_operators EXCEPT ![i] = @ \ {o}]
            /\ pc' = [pc EXCEPT ![i] =
                   IF channels_to_operators[i] = {o} THEN "J" ELSE "I"]
            /\ UNCHANGED <<num_nodes, concrete, conversions, shutdown_rx, duplicates, supVars, callerVars, initialized, commVars,
                           op_state, rx_from_operators, phaseEVars, phaseGVars,
                           channel_manager, num_local_operators, hooks_total,
                           hooks_invoked, broadcast_done>>

\* Mutant of JoinHandlesCompleted: join_all does not wait for the tasks.
JoinHandlesCompleted_NoWait(i) == TRUE

\* future::join_all(join_handles) is ready: the task of every local operator
\* has ended, by a return of execute() or by a panic.
JoinHandlesCompleted(i) == \A o \in LocalOps(i) : OperatorGone(i, o)

\* future::join_all(join_handles) completes (its results are dropped) and
\* run_operators returns Ok(()).
JoinAll(i) ==
    /\ i \in concrete
    /\ OpsPolled(i)
    /\ pc[i] = "J"
    /\ JoinHandlesCompleted(i)
    /\ OpsReturnOk(i)

\* ---------------------------------------------------------------- operators
\* The executor of operator o finishes its setup and sends
\* OperatorInitialized(o) on operator_tx.
OperatorSetUp(i, o) ==
    /\ i \in concrete
    /\ RuntimeAlive(i)
    /\ op_state[i][o] = "spawned"
    /\ op_state' = [op_state EXCEPT ![i][o] = "initialized"]
    /\ rx_from_operators' =
           [rx_from_operators EXCEPT ![i] = @ \cup {<<"OperatorInitialized", o>>}]
    /\ UNCHANGED <<num_nodes, concrete, conversions, shutdown_rx, duplicates, supVars, callerVars, initialized, pc, commVars, cmd_chan,
                   phaseEVars, phaseGVars, graphVars, broadcast_done, run_sent>>

\* The executor receives RunOperator on its command channel and starts running.
OperatorRun(i, o) ==
    /\ i \in concrete
    /\ RuntimeAlive(i)
    /\ op_state[i][o] = "initialized"
    /\ o \in cmd_chan[i]
    /\ cmd_chan' = [cmd_chan EXCEPT ![i] = @ \ {o}]
    /\ op_state' = [op_state EXCEPT ![i][o] = "running"]
    /\ UNCHANGED <<num_nodes, concrete, conversions, shutdown_rx, duplicates, supVars, callerVars, initialized, pc, commVars,
                   rx_from_operators, phaseEVars, phaseGVars, graphVars,
                   broadcast_done, run_sent>>

\* execute() returns: the operator's task completes.
OperatorFinish(i, o) ==
    /\ i \in concrete
    /\ RuntimeAlive(i)
    /\ op_state[i][o] = "running"
    /\ op_state' = [op_state EXCEPT ![i][o] = "done"]
    /\ UNCHANGED <<num_nodes, concrete, conversions, shutdown_rx, duplicates, supVars, callerVars, initialized, pc, commVars,
                   rx_from_operators, cmd_chan, phaseEVars, phaseGVars, graphVars,
                   broadcast_done, run_sent>>

\* The operator's task panics: its JoinHandle completes with a JoinError.
OperatorFail(i, o) ==
    /\ i \in concrete
    /\ RuntimeAlive(i)
    /\ op_state[i][o] \in {"spawned", "initialized", "running"}
    /\ op_state' = [op_state EXCEPT ![i][o] = "failed"]
    /\ UNCHANGED <<num_nodes, concrete, conversions, shutdown_rx, duplicates, supVars, callerVars, initialized, pc, commVars,
                   rx_from_operators, cmd_chan, phaseEVars, phaseGVars, graphVars,
                   broadcast_done, run_sent>>

\* ---------------------------------------------------------------- peers
\* A peer p that is part of the environment passes its own Phase F and
\* broadcasts: its AllOperatorsInitializedOnNode(p) reaches the control handler
\* of every node it has a control pipe to.
PeerBroadcasts(p) ==
    /\ p \in Nodes \ concrete
    /\ sup[p] = "connect"
    /\ \A j \in Peers(p) : sup[j] # "new"
    /\ ~broadcast_done[p]
    /\ broadcast_done' = [broadcast_done EXCEPT ![p] = TRUE]
    /\ allops_chan' = [j \in NodeIds |->
           IF j \in BroadcastTargets(p) /\ ~ThreadEnded(j)
           THEN allops_chan[j] \cup {p} ELSE allops_chan[j]]
    /\ UNCHANGED <<num_nodes, concrete, conversions, shutdown_rx, duplicates, supVars, callerVars, initialized, pc, commVars,
                   opVars, phaseEVars, initialized_nodes, allops_received,
                   graphVars, run_sent>>

\* ---------------------------------------------------------------- redelivery
\* A report that the node has already processed is delivered and processed
\* again by the loop of the barrier the node is in.  One second read is
\* recorded per barrier; the reads of a report are counted up to MaxReads.

\* Phase B: a *Initialized(p) of kind k whose p is already in the set of k
\* is read again; the match arm inserts p.
ReadInitializedAgain(i) ==
    /\ i \in concrete
    /\ OpsPolled(i)
    /\ pc[i] = "B"
    /\ ~CommunicationLayerInitialized(i)
    /\ "B" \notin duplicates[i]
    /\ \E k \in Kinds : \E p \in comm_initialized[i][k] \ {i} :
           comm_initialized' = [comm_initialized EXCEPT ![i][k] = @ \cup {p}]
    /\ duplicates' = [duplicates EXCEPT ![i] = @ \cup {"B"}]
    /\ UNCHANGED <<num_nodes, concrete, conversions, shutdown_rx, supVars, callerVars,
                   initialized, pc, workers_reported, init_chan, opVars,
                   phaseEVars, phaseGVars, graphVars, broadcast_done, run_sent>>

\* Phase E: an OperatorInitialized(o) whose o is already in the set is read
\* again; the `if let` inserts o.
ReadOperatorInitializedAgain(i) ==
    /\ i \in concrete
    /\ OpsPolled(i)
    /\ pc[i] = "E"
    /\ ~LocalOperatorsInitialized(i)
    /\ "E" \notin duplicates[i]
    /\ \E o \in initialized_operators[i] :
           /\ op_observed[i][o] < MaxReads
           /\ initialized_operators' =
                  [initialized_operators EXCEPT ![i] = @ \cup {o}]
           /\ op_observed' = [op_observed EXCEPT ![i][o] = @ + 1]
    /\ duplicates' = [duplicates EXCEPT ![i] = @ \cup {"E"}]
    /\ UNCHANGED <<num_nodes, concrete, conversions, shutdown_rx, supVars, callerVars,
                   initialized, pc, commVars, opVars, violations, phaseGVars,
                   graphVars, broadcast_done, run_sent>>

\* Phase G: an AllOperatorsInitializedOnNode(n) whose n is already in the set
\* is read again; the Ok arm inserts n.
ReadAllOperatorsInitializedAgain(i) ==
    /\ i \in concrete
    /\ OpsPolled(i)
    /\ pc[i] = "G"
    /\ ~AllOperatorsInitialized(i)
    /\ "G" \notin duplicates[i]
    /\ \E n \in initialized_nodes[i] \ {i} :
           /\ allops_received[i][n] < MaxReads
           /\ initialized_nodes' = [initialized_nodes EXCEPT ![i] = @ \cup {n}]
           /\ allops_received' = [allops_received EXCEPT ![i][n] = @ + 1]
    /\ duplicates' = [duplicates EXCEPT ![i] = @ \cup {"G"}]
    /\ UNCHANGED <<num_nodes, concrete, conversions, shutdown_rx, supVars, callerVars,
                   initialized, pc, commVars, opVars, phaseEVars, allops_chan,
                   graphVars, broadcast_done, run_sent>>

\* ---------------------------------------------------------------- errors.rs
\* What an error value carries: the message that could not be sent, or the
\* inner error of the library that failed.
Payloads == {"x", "y"}

\* The unit variants of CommunicationError and of TryRecvError.
NoCapacity == <<"NoCapacity", "none">>
Disconnected == <<"Disconnected", "none">>
Empty == <<"Empty", "none">>

\* The values of the error types that are converted.
StdSendErrors == {<<"SendError", m>> : m \in Payloads}
SendErrors == {<<"SendError", m>> : m \in Payloads}
TrySendErrors == {<<v, m>> : v \in {"Closed", "Full"}, m \in Payloads}
MpscTryRecvErrors == {<<"Closed", "none">>, <<"Empty", "none">>}
CodecErrors == {<<v, e>> : v \in {"IoError", "BincodeError"}, e \in Payloads}

\* impl From<std::sync::mpsc::SendError<T>> for CommunicationError.
FromStdSendError(e) == Disconnected

\* impl From<mpsc::error::SendError<T>> for CommunicationError.
FromSendError(e) == Disconnected

\* Mutant of FromTrySendError: the two arms are swapped.
FromTrySendError_Swapped(e) ==
    CASE e[1] = "Closed" -> NoCapacity
      [] e[1] = "Full" -> Disconnected

\* impl From<mpsc::error::TrySendError<T>> for CommunicationError.
FromTrySendError(e) ==
    CASE e[1] = "Closed" -> Disconnected
      [] e[1] = "Full" -> NoCapacity

\* impl From<CodecError> for CommunicationError (tcp_transport build: the
\* two shared-memory variants exist only with zenoh_zerocopy_transport).
FromCodecError(e) ==
    CASE e[1] = "IoError" -> <<"IoError", e[2]>>
      [] e[1] = "BincodeError" -> <<"BincodeError", e[2]>>

\* impl From<mpsc::error::TryRecvError> for TryRecvError.
FromTryRecvError(e) ==
    CASE e[1] = "Closed" -> Disconnected
      [] e[1] = "Empty" -> Empty

\* A conversion is made and recorded with its source type, its argument and
\* its result.
Record(type, e, result) ==
    /\ Len(conversions) < MaxConversions
    /\ conversions' = Append(conversions, [from |-> type, error |-> e, into |-> result])
    /\ UNCHANGED nodeVars

ConvertStdSendError ==
    \E e \in StdSendErrors : Record("std::sync::mpsc::SendError", e, FromStdSendError(e))

ConvertSendError ==
    \E e \in SendErrors : Record("mpsc::error::SendError", e, FromSendError(e))

ConvertTrySendError ==
    \E e \in TrySendErrors : Record("mpsc::error::TrySendError", e, FromTrySendError(e))

ConvertCodecError ==
    \E e \in CodecErrors : Record("CodecError", e, FromCodecError(e))

ConvertTryRecvError ==
    \E e \in MpscTryRecvErrors : Record("mpsc::error::TryRecvError", e, FromTryRecvError(e))

\* The conversions of errors.rs, applied to every value of their source types.
ConversionInit ==
    /\ num_nodes = MaxNodes
    /\ concrete = {}
    /\ NodeNew

ConversionNext ==
    \/ ConvertStdSendError
    \/ ConvertSendError
    \/ ConvertTrySendError
    \/ ConvertCodecError
    \/ ConvertTryRecvError

ConversionSpec == ConversionInit /\ [][ConversionNext]_vars

\* ---------------------------------------------------------------- specification
\* The steps of the caller that holds the Node or the NodeHandle of node i,
\* and the receipt of the shutdown signal it sends.
HandleStep(i) ==
    \/ RunAsyncReturn(i)
    \/ Shutdown(i)
    \/ Join(i)
    \/ JoinReturn(i)
    \/ RecvShutdown(i)

\* The steps of the node thread of node i, of its transport workers and of
\* its operator tasks.
NodeStep(i) ==
    \/ Connect(i)
    \/ \E r \in {"Ok"} \cup Groups : JoinTransport(i, r)
    \/ \E g \in Groups : TransportError(i, g)
    \/ \E k \in Kinds, p \in NodeIds : WorkerInitialized(i, k, p)
    \/ ReadInitialized(i)
    \/ ReadInitializedError(i)
    \/ ExitPhaseB(i)
    \/ \E n \in 0 .. MaxOps : ScheduleAndBuild(i, n)
    \/ DotError(i)
    \/ SpawnOperator(i)
    \/ ReadOperatorInitialized(i)
    \/ \E h \in 0 .. MaxHooks : ExitPhaseE(i, h)
    \/ InvokeSetupHook(i)
    \/ Broadcast(i)
    \/ BroadcastFails(i)
    \/ ReadAllOperatorsInitialized(i)
    \/ ReadAllOperatorsError(i)
    \/ ExitPhaseG(i)
    \/ SetNodeInitialized(i)
    \/ \E o \in OpIds : SendRunOperator(i, o)
    \/ JoinAll(i)
    \/ \E o \in OpIds : OperatorSetUp(i, o)
    \/ \E o \in OpIds : OperatorRun(i, o)
    \/ \E o \in OpIds : OperatorFinish(i, o)
    \/ \E o \in OpIds : OperatorFail(i, o)

\* One node runs the code; its peers are its environment.
Next ==
    \E i \in NodeIds :
        \/ PeerBroadcasts(i)
        \/ RunAsync(i)
        \/ HandleStep(i)
        \/ NodeStep(i)

Spec == Init /\ [][Next]_vars

\* ---------------------------------------------------------------- fairness
\* The node that runs the code under Spec.
Self == CHOOSE i \in concrete : TRUE

\* The steps the node thread takes on its own once they are possible: the
\* supervisor and run_operators are polled by block_on whenever they are ready.
NodeProgress(i) ==
    /\ i \in concrete
    /\ sup[i] \in {"connect", "join", "select"}
    /\ \/ Connect(i)
       \/ \E r \in {"Ok"} \cup Groups : JoinTransport(i, r)
       \/ RecvShutdown(i)
       \/ ReadInitialized(i)
       \/ ExitPhaseB(i)
       \/ \E n \in 0 .. MaxOps : ScheduleAndBuild(i, n)
       \/ SpawnOperator(i)
       \/ ReadOperatorInitialized(i)
       \/ \E h \in 0 .. MaxHooks : ExitPhaseE(i, h)
       \/ InvokeSetupHook(i)
       \/ Broadcast(i)
       \/ ReadAllOperatorsInitialized(i)
       \/ ExitPhaseG(i)
       \/ SetNodeInitialized(i)
       \/ \E o \in OpIds : SendRunOperator(i, o)
       \/ JoinAll(i)

\* The steps a caller blocked on the latch or on the join of the node thread
\* takes once it is woken.
CallerProgress(i) == RunAsyncReturn(i) \/ JoinReturn(i)

\* Spec with the scheduling the runtime and the OS provide: the node thread,
\* a spawned operator task that is ready to report, and a blocked caller that
\* is woken all get to run.  Under Spec the steps are those of the one node
\* in concrete.
FairSpec ==
    /\ Spec
    /\ WF_vars(NodeProgress(Self))
    /\ WF_vars(CallerProgress(Self))
    /\ \A o \in OpIds : WF_vars(OperatorSetUp(Self, o))

\* ---------------------------------------------------------------- redelivery
\* The first node of a cluster of up to MaxNodes + 1 nodes runs the code, so
\* that a node in Phase G can have read the report of one peer while it waits
\* for another; its environment also delivers processed reports again.
RedeliveryInit ==
    /\ num_nodes \in 1 .. (MaxNodes + 1)
    /\ concrete = {0}
    /\ NodeNew

RedeliveryNext ==
    \/ Next
    \/ \E i \in NodeIds :
           \/ ReadInitializedAgain(i)
           \/ ReadOperatorInitializedAgain(i)
           \/ ReadAllOperatorsInitializedAgain(i)

RedeliverySpec == RedeliveryInit /\ [][RedeliveryNext]_vars

\* ---------------------------------------------------------------- direct run
\* A peer of the node that runs the code is started by its own caller.
PeerStarts(p) == p \notin concrete /\ RunAsync(p)

\* The owner of the Node calls Node::run itself, and again when it returns.
RunNext ==
    \E i \in NodeIds :
        \/ PeerStarts(i)
        \/ PeerBroadcasts(i)
        \/ Run(i)
        \/ RunReturn(i)
        \/ NodeStep(i)

RunSpec == Init /\ [][RunNext]_vars

\* ---------------------------------------------------------------- cluster
\* Every node of the cluster runs the code, each started by its own caller.
ClusterInit ==
    /\ num_nodes \in 1 .. MaxNodes
    /\ concrete = 0 .. (num_nodes - 1)
    /\ NodeNew

ClusterNext ==
    \E i \in NodeIds :
        \/ RunAsync(i)
        \/ HandleStep(i)
        \/ NodeStep(i)

ClusterSpec == ClusterInit /\ [][ClusterNext]_vars

\* The transport workers of node i are spawned tasks of its runtime: each
\* gets to send its *Initialized report.
WorkerProgress(i) == \E k \in Kinds, p \in NodeIds : WorkerInitialized(i, k, p)

\* ClusterSpec with the scheduling of FairSpec on every node.
FairClusterSpec ==
    /\ ClusterSpec
    /\ \A i \in NodeIds :
           /\ WF_vars(NodeProgress(i))
           /\ WF_vars(WorkerProgress(i))
           /\ \A o \in OpIds : WF_vars(OperatorSetUp(i, o))

\* ---------------------------------------------------------------- claims
\* Positions of run_operators after each barrier.
PastB == {"C", "D", "E", "F", "G", "H", "I", "J", "ok"}
PastE == {"F", "G", "H", "I", "J", "ok"}
PastG == {"H", "I", "J", "ok"}

\* The node thread is in the select! of async_run (its state is not dropped).
Live(i) == sup[i] = "select"

\* C1: on every node, a RunOperator is sent (or pending in a command channel)
\* only when the node's initialized_nodes set, seeded with its own id, has
\* reached size N through an AllOperatorsInitializedOnNode report of every
\* peer, each of which that peer has broadcast.
C1_NoRunOperatorBeforePhaseG ==
    \A i \in concrete : \A o \in OpIds :
        (run_sent[i][o] > 0 \/ o \in cmd_chan[i]) =>
            /\ Cardinality(initialized_nodes[i]) = num_nodes
            /\ initialized_nodes[i] = Nodes
            /\ \A n \in Peers(i) : allops_received[i][n] >= 1 /\ broadcast_done[n]

C1_Witness ==
    \E i \in concrete : \E o \in OpIds : num_nodes > 1 /\ run_sent[i][o] = 1

\* C2: for every local operator op the node reads OperatorInitialized(op)
\* exactly once, and it has read it before RunOperator(op) is sent.
C2_OperatorInitializedOnceBeforeRun ==
    \A i \in concrete : \A o \in OpIds :
        /\ op_observed[i][o] <= 1
        /\ run_sent[i][o] > 0 => op_observed[i][o] = 1
        /\ (Live(i) /\ pc[i] \in PastE /\ o \in LocalOps(i)) => op_observed[i][o] = 1

C2_Witness ==
    \E i \in concrete :
        /\ num_local_operators[i] = 2
        /\ \A o \in LocalOps(i) : run_sent[i][o] = 1 /\ op_observed[i][o] = 1

\* C3 as stated: a node past Phase G has received
\* AllOperatorsInitializedOnNode(n) exactly once for every n in [0,N), its own
\* id included.
C3_ReceivedFromEveryNodeOnce ==
    \A i \in concrete :
        (Live(i) /\ pc[i] \in PastG) => \A n \in Nodes : allops_received[i][n] = 1

\* C3 amended: a node past Phase G has received
\* AllOperatorsInitializedOnNode(n) exactly once for every peer n # self, and
\* never for its own id, which is in the set because the set is seeded with it.
C3_ReceivedFromEveryPeerOnce ==
    \A i \in concrete :
        (Live(i) /\ pc[i] \in PastG) =>
            /\ \A n \in Peers(i) : allops_received[i][n] = 1
            /\ allops_received[i][i] = 0
            /\ initialized_nodes[i] = Nodes

C3_Witness ==
    \E i \in concrete :
        /\ num_nodes > 1 /\ Live(i) /\ pc[i] \in PastG
        /\ \A n \in Peers(i) : allops_received[i][n] = 1

C5_PhaseBEndsWhenFourSetsFull ==
    \A i \in concrete :
        Live(i) =>
            /\ pc[i] \in PastB => \A k \in Kinds : comm_initialized[i][k] = Nodes
            /\ pc[i] = "B" =>
                   /\ (ENABLED ExitPhaseB(i)) <=>
                          \A k \in Kinds : Cardinality(comm_initialized[i][k]) = num_nodes
                   /\ ~channel_manager[i]
                   /\ num_local_operators[i] = 0
                   /\ \A o \in OpIds : op_state[i][o] = "none"

C5_Witness ==
    \E i \in concrete : \E k \in Kinds :
        /\ num_nodes > 1 /\ Live(i) /\ pc[i] = "B"
        /\ comm_initialized[i][k] # Nodes
        /\ \A k2 \in Kinds \ {k} : comm_initialized[i][k2] = Nodes

\* C6: Phase E is left only when every local operator id is in the set of
\* reported ids; until then no setup hook has run, nothing was broadcast, the
\* latch is false and no RunOperator was sent.
C6_PhaseEEndsWhenAllOperatorsReported ==
    \A i \in concrete :
        /\ (Live(i) /\ pc[i] \in PastE) =>
               /\ initialized_operators[i] = LocalOps(i)
               /\ Cardinality(initialized_operators[i]) = num_local_operators[i]
        /\ (Live(i) /\ pc[i] = "E") =>
               ((ENABLED (\E h \in 0 .. MaxHooks : ExitPhaseE(i, h))) <=>
                    initialized_operators[i] = LocalOps(i))
        /\ pc[i] \in {"idle", "B", "C", "D", "E"} =>
               /\ hooks_invoked[i] = 0
               /\ ~broadcast_done[i]
               /\ ~initialized[i]
               /\ \A o \in OpIds : run_sent[i][o] = 0 /\ o \notin cmd_chan[i]
               /\ \A j \in Nodes : i \notin allops_chan[j]

C6_Witness ==
    \E i \in concrete :
        /\ Live(i) /\ pc[i] = "E" /\ num_local_operators[i] = 2
        /\ Cardinality(initialized_operators[i]) = 1
        /\ rx_from_operators[i] = {}

\* C7: a setup hook is invoked only after Phase E has completed (every local
\* operator's OperatorInitialized was read), and
\* AllOperatorsInitializedOnNode(self.id) is broadcast, and reaches a peer's
\* control handler, only after every setup hook of the driver was invoked.
C7_HooksAfterPhaseEBroadcastAfterHooks ==
    [][\A i \in concrete :
        /\ hooks_invoked'[i] > hooks_invoked[i] =>
               /\ pc[i] = "F"
               /\ initialized_operators[i] = LocalOps(i)
               /\ \A o \in LocalOps(i) : op_observed[i][o] >= 1
        /\ (broadcast_done'[i] /\ ~broadcast_done[i]) =>
               /\ hooks_invoked[i] = hooks_total[i]
               /\ initialized_operators[i] = LocalOps(i)
        /\ \A j \in Nodes :
               (i \in allops_chan'[j] /\ i \notin allops_chan[j]) =>
                   hooks_invoked[i] = hooks_total[i]
      ]_vars

C7_Witness ==
    \E i \in concrete :
        /\ Live(i) /\ pc[i] = "F"
        /\ num_local_operators[i] >= 1
        /\ hooks_total[i] >= 1 /\ hooks_invoked[i] = hooks_total[i]

\* C8: the channel manager is built and an operator task exists on a node only
\* when that node's Phase B is complete: all four sets hold every node id, each
\* peer's id through the report of the worker for that peer.
C8_NothingBuiltBeforePhaseB ==
    \A i \in concrete :
        (channel_manager[i] \/ \E o \in OpIds : op_state[i][o] # "none") =>
            /\ \A k \in Kinds : comm_initialized[i][k] = Nodes
            /\ \A k \in Kinds : \A p \in Peers(i) : <<k, p>> \in workers_reported[i]

C8_Witness ==
    \E i \in concrete :
        num_nodes > 1 /\ channel_manager[i] /\ op_state[i][1] = "spawned"

\* C9 as stated: with N > 1, whichever future completes first wins the race
\* and the node exits its run loop; so a node whose run_operators has
\* completed has exited.
C9_AnyCompletionEndsNode ==
    \A i \in concrete :
        (num_nodes > 1 /\ pc[i] \in {"ok", "err"}) => sup[i] = "exited"

\* C9 amended: with N > 1, the race is won by the first of the four group
\* futures or run_operators to complete with an error, or by the shutdown
\* signal, and the node then exits its run loop; a run_operators that
\* completes with Ok(()) only has its branch disabled, and the node runs on
\* until one of the others wins.
C9_ErrorOrShutdownEndsNode ==
    \A i \in concrete :
        num_nodes > 1 =>
            /\ pc[i] = "err" <=> exit_cause[i] = "ops_fut"
            /\ pc[i] = "err" => sup[i] = "exited"
            /\ sup[i] = "exited" <=>
                   exit_cause[i] \in Groups \cup {"ops_fut", "shutdown_fut"}
            /\ sup[i] = "exited" => (exit_cause[i] = "shutdown_fut" \/ exit_cause[i] \in log[i])
            /\ (pc[i] = "ok" /\ sup[i] # "exited") =>
                   (sup[i] = "select" /\ "ops_fut" \in disabled[i])

C9_Witness ==
    \E i \in concrete :
        /\ num_nodes > 1 /\ pc[i] = "ok"
        /\ sup[i] = "exited" /\ exit_cause[i] = "shutdown_fut"

\* C10: with num_nodes <= 1, run_operators is not polled and the shutdown
\* signal is not received before try_join! of the four group futures has
\* returned; an error of try_join! is logged and does not end the node; the
\* node is ended only by run_operators or by the shutdown signal.
C10_SingleNodeJoinsTransportFirst ==
    \A i \in concrete :
        num_nodes <= 1 =>
            /\ sup[i] \in {"new", "connect", "join"} =>
                   (pc[i] = "idle" /\ exit_cause[i] = "none" /\ log[i] = {})
            /\ sup[i] = "exited" <=> exit_cause[i] \in {"ops_fut", "shutdown_fut"}
            /\ log[i] \subseteq {"non_fatal_network", "ops_fut"}

C10_Witness ==
    \E i \in concrete :
        /\ num_nodes <= 1 /\ "non_fatal_network" \in log[i]
        /\ sup[i] = "select" /\ initialized[i] /\ pc[i] = "J"

\* The to_dot export of the graph failed before the latch was set.
DotExportFailed(i) == exit_cause[i] = "ops_fut" /\ ~initialized[i]

\* A local operator's task ended without having sent OperatorInitialized.
OperatorNeverReports(i) ==
    \E o \in LocalOps(i) :
        /\ op_state[i][o] = "failed"
        /\ op_observed[i][o] = 0
        /\ <<"OperatorInitialized", o>> \notin rx_from_operators[i]

\* C11: a node with N = 1 never has an initialization message or an
\* AllOperatorsInitializedOnNode pending or read, its four sets and
\* initialized_nodes hold only its own id, and once started it eventually
\* sets the latch and run_async returns the handle, unless its graph export
\* fails or one of its local operators ends without reporting
\* OperatorInitialized.
C11_SingleNodeReachesPhaseH ==
    /\ [](\A i \in concrete :
            num_nodes = 1 =>
                /\ init_chan[i] = {} /\ workers_reported[i] = {}
                /\ allops_chan[i] = {}
                /\ \A n \in NodeIds : allops_received[i][n] = 0
                /\ \A k \in Kinds : comm_initialized[i][k] \subseteq {i}
                /\ initialized_nodes[i] \subseteq {i})
    /\ (num_nodes = 1 /\ sup[Self] = "connect")
           ~> \/ initialized[Self] /\ caller[Self] = "handle"
              \/ DotExportFailed(Self)
              \/ OperatorNeverReports(Self)

C11_Witness ==
    \E i \in concrete :
        /\ num_nodes = 1 /\ initialized[i] /\ caller[i] = "handle"
        /\ num_local_operators[i] = 2
        /\ \A o \in LocalOps(i) : op_observed[i][o] = 1

\* C12: try_send never leaves more than ShutdownCapacity = 1 values queued
\* and leaves the channel as it was when the channel is full or closed; a
\* shutdown() whose try_send fails changes nothing of the node and goes on to
\* join the thread; the node takes a value from the channel at most once (the
\* one an Ok try_send queued) and an ended thread stays ended; shutdown()
\* returns Err only when the thread panicked.
C12_ShutdownIdempotent ==
    /\ [](/\ \A closed \in BOOLEAN : \A queued \in 0 .. ShutdownCapacity :
               /\ TrySend(closed, queued) <= ShutdownCapacity
               /\ (closed \/ queued = ShutdownCapacity) =>
                      TrySend(closed, queued) = queued
          /\ \A i \in concrete : shutdown_chan[i] <= ShutdownCapacity)
    /\ [][\A i \in concrete :
            /\ (try_send_result'[i] # try_send_result[i]
                    /\ try_send_result'[i] # "Ok") =>
                   /\ caller'[i] = "joining"
                   /\ UNCHANGED <<supVars, initialized, pc, commVars, opVars,
                                  phaseEVars, phaseGVars, graphVars,
                                  broadcast_done, run_sent>>
            /\ (exit_cause'[i] = "shutdown_fut" /\ exit_cause[i] # "shutdown_fut") =>
                   /\ try_send_result[i] = "Ok"
                   /\ shutdown_chan[i] = 1 /\ shutdown_chan'[i] = 0
            /\ ThreadEnded(i) =>
                   (sup'[i] = sup[i] /\ exit_cause'[i] = exit_cause[i])
            /\ (caller'[i] = "join_err" /\ try_send_result[i] # "none") =>
                   sup[i] = "panicked"
      ]_vars

C12_Witness ==
    \E i \in concrete :
        /\ try_send_result[i] = "Closed" /\ caller[i] = "join_ok"
        /\ exit_cause[i] \in Groups

\* An error branch of the select! has ended the node.
EndedByError(i) == exit_cause[i] \in Groups \cup {"ops_fut"}

\* C13: shutdown() can only be invoked on a node whose latch is set; once its
\* try_send has queued the signal, the node thread eventually ends without a
\* panic and shutdown() returns Ok, with one node and with more, and with
\* run_operators still waiting for its operators or already returned; the
\* branch that ends the node is the shutdown branch, unless an error of a
\* transport group or of run_operators has won the select! before it.
C13_ShutdownEndsNode ==
    /\ [](\A i \in concrete :
            /\ try_send_result[i] # "none" => initialized[i]
            /\ (try_send_result[i] = "Ok" /\ ThreadEnded(i)) =>
                   /\ sup[i] = "exited"
                   /\ exit_cause[i] = "shutdown_fut" \/ EndedByError(i)
            /\ (try_send_result[i] = "Ok" /\ ~ThreadEnded(i)) =>
                   (sup[i] = "select" /\ shutdown_chan[i] = 1))
    /\ try_send_result[Self] = "Ok"
           ~> /\ caller[Self] = "join_ok"
              /\ sup[Self] = "exited"
              /\ exit_cause[Self] = "shutdown_fut" \/ EndedByError(Self)

C13_Witness ==
    \E i \in concrete :
        /\ num_nodes > 1 /\ try_send_result[i] = "Ok"
        /\ caller[i] = "join_ok" /\ exit_cause[i] = "shutdown_fut"
        /\ pc[i] = "dropped"

\* C14: a node ended by an error of a transport group future has more than
\* one node in its cluster, has logged the error, has left its run loop by a
\* return (its thread did not panic), and a join() or shutdown() on its handle
\* does not return Err.
C14_TransportErrorLoggedNotPropagated ==
    \A i \in concrete :
        exit_cause[i] \in Groups =>
            /\ num_nodes > 1
            /\ sup[i] = "exited"
            /\ exit_cause[i] \in log[i]
            /\ caller[i] # "join_err"

C14_Witness ==
    \E i \in concrete :
        /\ exit_cause[i] \in Groups /\ initialized[i]
        /\ try_send_result[i] = "none" /\ caller[i] = "join_ok"

\* C15 as stated: the failure of a local operator's task reaches the
\* orchestrator through its completion handle, so a run_operators that has
\* returned with a failed local operator has returned an error and the node
\* has left its run loop; no node is still in its select! with run_operators
\* returned Ok(()) and a failed operator.
C15_OperatorFailureEndsNode ==
    \A i \in concrete :
        (Live(i) /\ pc[i] = "ok") =>
            \A o \in LocalOps(i) : op_state[i][o] # "failed"

\* C16 as stated: a node that has read, in Phase B, a control message that
\* is not one of the four *Initialized variants has ended its run with an
\* error: run_operators returned an error, the error won the select! and was
\* logged, and the node left its run loop by a return.
C16_ProtocolViolationIsError ==
    \A i \in concrete :
        "B" \in violations[i] =>
            /\ sup[i] = "exited"
            /\ pc[i] = "err"
            /\ exit_cause[i] = "ops_fut" /\ "ops_fut" \in log[i]

\* C17 as stated: a node that has read an unexpected control-message variant
\* in a barrier phase has aborted its startup: its latch is never set.
C17_UnexpectedVariantAbortsStartup ==
    \A i \in concrete : violations[i] # {} => ~initialized[i]

\* C18: the latch of every node starts false; it never goes from true to
\* false, not even when the node thread ends; it goes from false to true only
\* by set_node_initialized, in Phase H, when Phase G has completed (the node
\* has broadcast and initialized_nodes holds every node id); every execution
\* of set_node_initialized finds it false and sets it, so it is set exactly
\* once in a run that gets past Phase H.
C18_LatchSetOnceNeverReset ==
    /\ \A i \in NodeIds : ~initialized[i]
    /\ [][\A i \in concrete :
            /\ initialized[i] => initialized'[i]
            /\ (~initialized[i] /\ initialized'[i]) =>
                   /\ sup[i] = "select" /\ pc[i] = "H"
                   /\ broadcast_done[i]
                   /\ initialized_nodes[i] = Nodes
            /\ (pc[i] = "H" /\ pc'[i] \in {"I", "J"}) =>
                   (~initialized[i] /\ initialized'[i])
            /\ pc'[i] \in {"I", "J", "ok"} => initialized'[i]
      ]_vars

C18_Witness ==
    \E i \in concrete :
        /\ num_nodes > 1 /\ initialized[i]
        /\ sup[i] = "exited" /\ exit_cause[i] = "shutdown_fut"

\* C19: join() (and the join of shutdown()) has returned only if the node
\* thread has ended; it has returned Err exactly when the thread ended by a
\* panic, and Ok when the thread ended by a return of run, after a logged
\* transport or operator error or after the shutdown signal; and for every
\* ended thread the join yields Err exactly when it panicked.
C19_JoinReturnsAfterThreadEnd ==
    \A i \in concrete :
        /\ caller[i] \in {"join_ok", "join_err"} => ThreadEnded(i)
        /\ caller[i] = "join_err" => sup[i] = "panicked"
        /\ caller[i] = "join_ok" =>
               /\ sup[i] = "exited"
               /\ exit_cause[i] \in Groups \cup {"ops_fut", "shutdown_fut"}
        /\ ThreadEnded(i) =>
               /\ JoinReady(i)
               /\ JoinResult(i) = "join_err" <=> sup[i] = "panicked"
               /\ JoinResult(i) = "join_ok" <=> sup[i] = "exited"
        /\ ~ThreadEnded(i) => ~JoinReady(i)

C19_Witness ==
    \E i \in concrete :
        /\ caller[i] = "join_ok" /\ try_send_result[i] = "none"
        /\ exit_cause[i] = "ops_fut" /\ "ops_fut" \in log[i]

C21_RunOperatorOncePerOperatorAfterLatch ==
    /\ [](\A i \in concrete :
            /\ \A o \in OpIds :
                   /\ run_sent[i][o] <= 1
                   /\ (run_sent[i][o] = 1 \/ o \in cmd_chan[i]) =>
                          (initialized[i] /\ o \in LocalOps(i))
                   /\ o \in cmd_chan[i] => run_sent[i][o] = 1
            /\ (Live(i) /\ pc[i] \in {"J", "ok"}) =>
                   \A o \in LocalOps(i) : run_sent[i][o] = 1
            /\ (Live(i) /\ pc[i] = "ok") =>
                   \A o \in LocalOps(i) : OperatorGone(i, o))
    /\ [][\A i \in concrete :
            /\ \A o \in OpIds :
                   run_sent'[i][o] # run_sent[i][o] /\ sup'[i] = "select" =>
                       /\ pc[i] = "I" /\ initialized[i]
                       /\ run_sent'[i][o] = run_sent[i][o] + 1
                       /\ cmd_chan'[i] = cmd_chan[i] \cup {o}
                       /\ o \notin cmd_chan[i]
                       /\ \A o2 \in OpIds \ {o} : run_sent'[i][o2] = run_sent[i][o2]
            /\ (pc'[i] = "ok" /\ pc[i] # "ok") =>
                   /\ pc[i] = "J"
                   /\ \A o \in LocalOps(i) : OperatorGone(i, o)
      ]_vars

C21_Witness ==
    \E i \in concrete :
        /\ Live(i) /\ pc[i] = "ok" /\ num_local_operators[i] = 2
        /\ \A o \in LocalOps(i) : run_sent[i][o] = 1 /\ op_state[i][o] = "done"

\* C22: every recorded conversion into CommunicationError classifies the
\* channel failure by its kind: a SendError of either mpsc becomes
\* Disconnected; a TrySendError becomes Disconnected exactly when it is Closed
\* and NoCapacity exactly when it is Full; a CodecError becomes the variant of
\* the same name with the same inner error; and the conversion of the mpsc
\* TryRecvError gives Disconnected for Closed and Empty for Empty.
C22_ConversionsClassifyByKind ==
    \A n \in 1 .. Len(conversions) :
        LET c == conversions[n] IN
        /\ c.from \in {"std::sync::mpsc::SendError", "mpsc::error::SendError"} =>
               c.into = <<"Disconnected", "none">>
        /\ c.from = "mpsc::error::TrySendError" =>
               /\ c.error[1] = "Closed" <=> c.into = <<"Disconnected", "none">>
               /\ c.error[1] = "Full" <=> c.into = <<"NoCapacity", "none">>
               /\ c.into[1] \in {"Disconnected", "NoCapacity"}
        /\ c.from = "CodecError" =>
               (c.into[1] = c.error[1] /\ c.into[2] = c.error[2])
        /\ c.from = "mpsc::error::TryRecvError" =>
               /\ c.error[1] = "Closed" <=> c.into = <<"Disconnected", "none">>
               /\ c.error[1] = "Empty" <=> c.into = <<"Empty", "none">>

C22_Witness ==
    /\ Len(conversions) = 2
    /\ conversions[1].from = "mpsc::error::TrySendError"
    /\ conversions[1].error[1] = "Full" /\ conversions[1].into[1] = "NoCapacity"
    /\ conversions[2].from = "mpsc::error::TrySendError"
    /\ conversions[2].error[1] = "Closed" /\ conversions[2].into[1] = "Disconnected"

\* Every node of the cluster has been started.
AllStarted == \A j \in Nodes : sup[j] # "new"

\* The thread of node j has ended, by an error or a panic, with its latch
\* still false.
EndedBeforeLatch(j) == ThreadEnded(j) /\ ~initialized[j]

\* C23: with every node running the code, a pending
\* AllOperatorsInitializedOnNode(n) leaves the control handler of a running
\* node only by being read in Phase G, where n is inserted and counted; and
\* once all nodes are started, every node eventually sets its latch (Phase
\* H), unless the thread of some node ends before its latch is set (a pipe or
\* a read fails, the graph export fails, a panic) or a local operator ends
\* without reporting OperatorInitialized.
C23_StartupDeadlockFree ==
    /\ [][\A i \in Nodes : \A n \in Nodes :
            (n \in allops_chan[i] /\ n \notin allops_chan'[i] /\ sup'[i] = "select") =>
                /\ pc[i] = "G"
                /\ n \in initialized_nodes'[i]
                /\ allops_received'[i][n] = allops_received[i][n] + 1
                /\ violations'[i] = violations[i]
      ]_vars
    /\ AllStarted
           ~> \/ \A i \in Nodes : initialized[i]
              \/ \E j \in Nodes : EndedBeforeLatch(j) \/ OperatorNeverReports(j)

C23_Witness ==
    \E i \in Nodes : \E n \in Peers(i) :
        /\ Live(i) /\ pc[i] = "B" /\ n \in allops_chan[i]
        /\ Live(n) /\ pc[n] = "G" /\ violations[i] = {}

\* Node i has set its latch or sent a RunOperator.
Released(i) ==
    initialized[i] \/ \E o \in OpIds : run_sent[i][o] > 0 \/ o \in cmd_chan[i]

\* C24: with every node running the code, when some node has set its latch
\* or sent a RunOperator, every node of the cluster has broadcast its
\* AllOperatorsInitializedOnNode and, while it runs, is past Phase F with
\* every local operator reported; and a node broadcasts only from Phase F,
\* with every local operator's OperatorInitialized read and every setup hook
\* of its driver invoked.
C24_GlobalBarrier ==
    /\ []((\E i \in Nodes : Released(i)) =>
            \A j \in Nodes :
                /\ broadcast_done[j]
                /\ Live(j) \/ ThreadEnded(j)
                /\ Live(j) =>
                       /\ pc[j] \in {"G", "H", "I", "J", "ok"}
                       /\ initialized_operators[j] = LocalOps(j)
                       /\ \A o \in LocalOps(j) : op_observed[j][o] = 1)
    /\ [][\A j \in Nodes :
            (broadcast_done'[j] /\ ~broadcast_done[j]) =>
                /\ pc[j] = "F" /\ pc'[j] = "G"
                /\ initialized_operators[j] = LocalOps(j)
                /\ hooks_invoked[j] = hooks_total[j]
      ]_vars

C24_Witness ==
    \E i \in Nodes : \E j \in Peers(i) :
        /\ initialized[i] /\ pc[i] = "I"
        /\ Live(j) /\ pc[j] = "G" /\ ~initialized[j]
        /\ num_local_operators[j] = 1 /\ num_local_operators[i] = 1

C26_DuplicateReportsChangeNothing ==
    /\ [](\A i \in concrete :
            Live(i) =>
                /\ pc[i] \in PastB => \A k \in Kinds : comm_initialized[i][k] = Nodes
                /\ pc[i] \in PastE => initialized_operators[i] = LocalOps(i)
                /\ pc[i] \in PastG => initialized_nodes[i] = Nodes)
    /\ [][\A i \in concrete :
            /\ ("B" \in duplicates'[i] /\ "B" \notin duplicates[i]) =>
                   /\ comm_initialized'[i] = comm_initialized[i]
                   /\ pc'[i] = "B" /\ pc[i] = "B"
                   /\ ~CommunicationLayerInitialized(i)'
            /\ ("E" \in duplicates'[i] /\ "E" \notin duplicates[i]) =>
                   /\ initialized_operators'[i] = initialized_operators[i]
                   /\ \E o \in initialized_operators[i] :
                          op_observed'[i][o] = op_observed[i][o] + 1
                   /\ pc'[i] = "E" /\ pc[i] = "E"
                   /\ ~LocalOperatorsInitialized(i)'
            /\ ("G" \in duplicates'[i] /\ "G" \notin duplicates[i]) =>
                   /\ initialized_nodes'[i] = initialized_nodes[i]
                   /\ \E n \in initialized_nodes[i] :
                          allops_received'[i][n] = allops_received[i][n] + 1
                   /\ pc'[i] = "G" /\ pc[i] = "G"
                   /\ ~AllOperatorsInitialized(i)'
      ]_vars

C26_Witness ==
    \E i \in concrete :
        /\ duplicates[i] = {"B", "E", "G"}
        /\ Live(i) /\ pc[i] = "G"
        /\ \E n \in Peers(i) : allops_received[i][n] = 2
        /\ Cardinality(initialized_nodes[i]) = 2
        /\ \E o \in LocalOps(i) : op_observed[i][o] = 2

\* C27: the shutdown receiver is in the Node until the first async_run takes
\* it and is never put back; a supervisor (try_join! or select!) is entered
\* only by the async_run that takes the receiver; a second Node::run on the
\* same Node gets no further than the take, where it panics: it polls no
\* run_operators and spawns no operator.
C27_SupervisorRunsAtMostOnce ==
    /\ [](\A i \in concrete :
            /\ shutdown_rx[i] <=> (caller[i] \in {"idle", "running"}
                                       /\ sup[i] \in {"new", "connect"})
            /\ caller[i] = "running_again" =>
                   /\ sup[i] \in {"connect", "panicked"}
                   /\ sup[i] = "panicked" => exit_cause[i] = "unwrap_none"
                   /\ pc[i] \in {"idle", "dropped"}
                   /\ \A o \in OpIds : op_state[i][o] = "none"
                   /\ ~ENABLED RunReturn(i))
    /\ [][\A i \in concrete :
            /\ ~shutdown_rx[i] => ~shutdown_rx'[i]
            /\ (sup[i] = "connect" /\ sup'[i] \in {"join", "select"}) =>
                   (shutdown_rx[i] /\ ~shutdown_rx'[i] /\ caller[i] = "running")
            /\ (sup[i] = "connect" /\ caller[i] = "running_again" /\ sup'[i] # sup[i]) =>
                   (sup'[i] = "panicked" /\ exit_cause'[i] = "unwrap_none")
      ]_vars

C27_Witness ==
    \E i \in concrete :
        /\ caller[i] = "running_again" /\ sup[i] = "panicked"
        /\ exit_cause[i] = "unwrap_none" /\ initialized[i]

====
